---------------------------- MODULE Spec2Model ----------------------------
(***************************************************************************)
(* Model of sparrow_parse/vllm/qwen_api_inference.py (QwenAPIInference).   *)
(*                                                                         *)
(* Three specifications share the module:                                  *)
(*   Spec         one call of inference(input_data, mode)                  *)
(*   SpecExtract  process_response applied to a bounded set of texts       *)
(*   SpecResize   the dimension arithmetic of load_image_data              *)
(*                                                                         *)
(* Text is a sequence of one-character strings.  Python's 0-based index p  *)
(* is position p + 1 here, and find()'s -1 ("not found") is 0.             *)
(***************************************************************************)
EXTENDS Integers, Sequences, FiniteSets, TLC

VARIABLES
    \* ---- inference(input_data, mode) ----
    pc,           \* "start" | "loop" | "done" | "raised"
    input_data,   \* the argument: sequence of [file_path, text_input]
    mode,         \* the argument: "none" | "static"
    file_paths,   \* local: the worklist
    idx,          \* position of the for loop in file_paths (1-based)
    results,      \* local: the accumulated results
    image_size,   \* local: (width, height) of the last load_image_data
    requests,     \* every payload POSTed so far, in order
    responses,    \* what the remote end answered to each POST, in order
    returned,     \* the value the call returned (meaningful when pc = "done")
    raised,       \* the exception that escaped the call ("" when none)
    \* ---- process_response(output_text) ----
    epc,          \* "call" | "ret"
    raw_text,     \* the argument as passed by the caller
    output_text,  \* the local output_text (reassigned by the fence branch)
    ret_text,     \* the returned text
    \* ---- load_image_data(image_filepath, max_width, max_height) ----
    rpc,          \* "call" | "ret"
    img,          \* [width, height, max_width, max_height]
    dims          \* the returned <<width, height>>

vars == <<pc, input_data, mode, file_paths, idx, results, image_size, requests,
          responses, returned, raised, epc, raw_text, output_text, ret_text,
          rpc, img, dims>>

inferenceVars == <<pc, input_data, mode, file_paths, idx, results, image_size,
                   requests, responses, returned, raised>>
extractVars == <<epc, raw_text, output_text, ret_text>>
resizeVars == <<rpc, img, dims>>

-----------------------------------------------------------------------------
(* Bounds of the model.                                                    *)

\* process_response inputs: concatenations of at most MaxParts fragments
MaxParts == 3
\* load_image_data inputs: image sides in 1..MaxDim, bounds in 1..MaxBound
MaxDim == 9
MaxBound == 5
\* inference inputs: at most MaxItems items, at most MaxPaths paths per item,
\* at most MaxWork paths in the whole batch
MaxItems == 2
MaxPaths == 2
MaxWork == 3

-----------------------------------------------------------------------------
(* Generic helpers.                                                        *)

Min(a, b) == IF a <= b THEN a ELSE b

SeqsUpTo(S, n) == UNION {[1..k -> S] : k \in 0..n}

RECURSIVE Cat(_)
Cat(parts) == IF parts = <<>> THEN <<>> ELSE Head(parts) \o Cat(Tail(parts))

-----------------------------------------------------------------------------
(* Python str operations used by process_response.                         *)

\* pat occurs in s at position i
OccursAt(s, pat, i) ==
    /\ i >= 1
    /\ i + Len(pat) - 1 <= Len(s)
    /\ \A k \in 1..Len(pat) : s[i + k - 1] = pat[k]

\* str.find(pat, start): the lowest position >= from where pat occurs, else 0
Find(s, pat, from) ==
    LET hits == {i \in from..Len(s) : OccursAt(s, pat, i)}
    IN IF hits = {} THEN 0 ELSE CHOOSE i \in hits : \A j \in hits : i <= j

\* str.strip(chars): drop leading and trailing characters that are in chars
StripChars(s, chars) ==
    LET keep == {i \in 1..Len(s) : s[i] \notin chars}
    IN IF keep = {} THEN <<>>
       ELSE LET lo == CHOOSE i \in keep : \A j \in keep : i <= j
                hi == CHOOSE i \in keep : \A j \in keep : j <= i
            IN SubSeq(s, lo, hi)

\* the whitespace of str.strip() and of the json scanner, within the alphabet
Whitespace == {" ", "\n"}

\* str.replace(a, b) for single characters
Replace(s, a, b) == [i \in 1..Len(s) |-> IF s[i] = a THEN b ELSE s[i]]

\* The backquote character (a TLA+ string cannot hold one): one character.
BQ == "bq"

\* "```json" and "```" (lines 47-49)
FenceOpen == <<BQ, BQ, BQ, "j", "s", "o", "n">>
FenceClose == <<BQ, BQ, BQ>>

-----------------------------------------------------------------------------
(* json.loads on the model's alphabet                                      *)
(*   { } [ ] " : , digits 1 2, letters, backquote, space, newline.         *)
(* The alphabet has no backslash, no sign, dot or exponent and none of the *)
(* letters of true / false / null / NaN / Infinity in a row, so a value is *)
(* an object, an array, a string or an unsigned integer; anything else is  *)
(* a JSONDecodeError.  A parsed value is kept as its compact serialisation *)
(* (json.dumps with separators "," and ":"), so two texts parse to the     *)
(* same value exactly when their parses agree.                             *)

Digits == {"1", "2"}

ParseFail == [ok |-> FALSE, pos |-> 0, val |-> <<>>]

RECURSIVE SkipWs(_, _)
SkipWs(s, i) ==
    IF i <= Len(s) /\ s[i] \in Whitespace THEN SkipWs(s, i + 1) ELSE i

\* scanstring: s[i] is the opening quote; the string ends at the next quote,
\* and a control character (newline) before it is an error (strict mode)
ParseString(s, i) ==
    LET stops == {j \in (i + 1)..Len(s) : s[j] \in {"\"", "\n"}}
    IN IF stops = {} THEN ParseFail
       ELSE LET j == CHOOSE x \in stops : \A y \in stops : x <= y
            IN IF s[j] = "\n" THEN ParseFail
               ELSE [ok |-> TRUE, pos |-> j + 1, val |-> SubSeq(s, i, j)]

\* NUMBER_RE: the longest run of digits starting at i
RECURSIVE DigitsEnd(_, _)
DigitsEnd(s, i) ==
    IF i <= Len(s) /\ s[i] \in Digits THEN DigitsEnd(s, i + 1) ELSE i

ParseNumber(s, i) ==
    LET j == DigitsEnd(s, i)
    IN [ok |-> TRUE, pos |-> j, val |-> SubSeq(s, i, j - 1)]

\* dict(pairs): a repeated key keeps its first place and takes the last value
RECURSIVE DictOf(_)
DictOf(pairs) ==
    IF pairs = <<>> THEN <<>>
    ELSE LET n == Len(pairs)
             init == DictOf(SubSeq(pairs, 1, n - 1))
             p == pairs[n]
             at == {i \in 1..Len(init) : init[i].k = p.k}
         IN IF at = {} THEN Append(init, p)
            ELSE [i \in 1..Len(init) |-> IF i \in at THEN p ELSE init[i]]

RECURSIVE JoinPairs(_)
JoinPairs(d) ==
    IF d = <<>> THEN <<>>
    ELSE d[1].k \o <<":">> \o d[1].v
         \o (IF Len(d) > 1 THEN <<",">> \o JoinPairs(Tail(d)) ELSE <<>>)

RECURSIVE ParseValue(_, _)
RECURSIVE ParseArrayElems(_, _, _)
RECURSIVE ParseObjectPairs(_, _, _)

\* scan_once at position i (the caller has skipped whitespace)
ParseValue(s, i) ==
    IF i > Len(s) THEN ParseFail
    ELSE IF s[i] = "\"" THEN ParseString(s, i)
    ELSE IF s[i] \in Digits THEN ParseNumber(s, i)
    ELSE IF s[i] = "[" THEN
        LET j == SkipWs(s, i + 1)
        IN IF j <= Len(s) /\ s[j] = "]"
           THEN [ok |-> TRUE, pos |-> j + 1, val |-> <<"[", "]">>]
           ELSE ParseArrayElems(s, j, <<"[">>)
    ELSE IF s[i] = "{" THEN
        LET j == SkipWs(s, i + 1)
        IN IF j <= Len(s) /\ s[j] = "}"
           THEN [ok |-> TRUE, pos |-> j + 1, val |-> <<"{", "}">>]
           ELSE ParseObjectPairs(s, j, <<>>)
    ELSE ParseFail

\* JSONArray: a value, then "]" or "," and the next value
ParseArrayElems(s, i, acc) ==
    LET v == ParseValue(s, i)
        j == SkipWs(s, v.pos)
    IN IF ~v.ok \/ j > Len(s) THEN ParseFail
       ELSE IF s[j] = "]"
            THEN [ok |-> TRUE, pos |-> j + 1, val |-> acc \o v.val \o <<"]">>]
       ELSE IF s[j] = ","
            THEN ParseArrayElems(s, SkipWs(s, j + 1), acc \o v.val \o <<",">>)
       ELSE ParseFail

\* JSONObject: "key" : value, then "}" or "," and the next key
ParseObjectPairs(s, i, pairs) ==
    IF i > Len(s) \/ s[i] # "\"" THEN ParseFail
    ELSE
    LET key == ParseString(s, i)
        c == SkipWs(s, key.pos)
    IN IF ~key.ok \/ c > Len(s) \/ s[c] # ":" THEN ParseFail
       ELSE
       LET v == ParseValue(s, SkipWs(s, c + 1))
           j == SkipWs(s, v.pos)
           all == Append(pairs, [k |-> key.val, v |-> v.val])
       IN IF ~v.ok \/ j > Len(s) THEN ParseFail
          ELSE IF s[j] = "}"
               THEN [ok |-> TRUE, pos |-> j + 1,
                     val |-> <<"{">> \o JoinPairs(DictOf(all)) \o <<"}">>]
          ELSE IF s[j] = ","
               THEN ParseObjectPairs(s, SkipWs(s, j + 1), all)
          ELSE ParseFail

\* json.loads: one value between optional whitespace, nothing after it
JsonLoads(s) ==
    LET v == ParseValue(s, SkipWs(s, 1))
    IN IF v.ok /\ SkipWs(s, v.pos) = Len(s) + 1 THEN v ELSE ParseFail

\* json.dumps(value, indent=2) of a value kept in compact form
Indent(depth) == [i \in 1..(2 * depth) |-> " "]

RECURSIVE Pretty(_, _, _, _)
Pretty(s, i, depth, inStr) ==
    IF i > Len(s) THEN <<>>
    ELSE LET c == s[i]
         IN IF inStr THEN <<c>> \o Pretty(s, i + 1, depth, c # "\"")
            ELSE IF c = "\"" THEN <<c>> \o Pretty(s, i + 1, depth, TRUE)
            ELSE IF c \in {"{", "["} THEN
                IF i < Len(s) /\ s[i + 1] \in {"}", "]"}
                THEN <<c, s[i + 1]>> \o Pretty(s, i + 2, depth, FALSE)
                ELSE <<c, "\n">> \o Indent(depth + 1)
                     \o Pretty(s, i + 1, depth + 1, FALSE)
            ELSE IF c \in {"}", "]"} THEN
                <<"\n">> \o Indent(depth - 1) \o <<c>>
                \o Pretty(s, i + 1, depth - 1, FALSE)
            ELSE IF c = "," THEN
                <<",", "\n">> \o Indent(depth) \o Pretty(s, i + 1, depth, FALSE)
            ELSE IF c = ":" THEN <<":", " ">> \o Pretty(s, i + 1, depth, FALSE)
            ELSE <<c>> \o Pretty(s, i + 1, depth, FALSE)

JsonDumps(val) == Pretty(val, 1, 0, FALSE)

-----------------------------------------------------------------------------
(* process_response (lines 38-62).                                         *)

\* lines 47-51 slicing to the end of the text when no closing fence follows
FenceExtractSliceToEnd(text) ==
    LET open == Find(text, FenceOpen, 1)
        json_start == open + 7
        json_end == Find(text, FenceClose, json_start)
    IN IF open = 0 THEN text
       ELSE IF json_end # 0
       THEN StripChars(SubSeq(text, json_start, json_end - 1), Whitespace)
       ELSE StripChars(SubSeq(text, json_start, Len(text)), Whitespace)

\* lines 47-51: the fence branch; the value of the local output_text after it
FenceExtract(text) ==
    LET open == Find(text, FenceOpen, 1)
        json_start == open + 7
        json_end == Find(text, FenceClose, json_start)
    IN IF open # 0 /\ json_end # 0
       THEN StripChars(SubSeq(text, json_start, json_end - 1), Whitespace)
       ELSE text

\* lines 54-57: strip("[]'") then replace("'", '"')
CleanText(text) == Replace(StripChars(text, {"[", "]", "'"}), "'", "\"")

\* lines 45-62: the returned text
process_response(text) ==
    LET extracted == FenceExtract(text)
        formatted_json == JsonLoads(CleanText(extracted))
    IN IF formatted_json.ok THEN JsonDumps(formatted_json.val) ELSE extracted

-----------------------------------------------------------------------------
(* load_image_data (lines 64-84): the dimension arithmetic.                *)
(*                                                                         *)
(* aspect_ratio = width / height is an IEEE double, and so are the product *)
(* max_height * aspect_ratio and the quotient max_width / aspect_ratio     *)
(* that int() truncates.  For the sizes modelled the rounding error is far *)
(* below 1 / height (1 / width), so the truncation is the exact floor      *)
(* unless the exact value is an integer k that the rounding may miss from  *)
(* below: 3 / (1 / 75) truncates to 224.  Both outcomes, k - 1 and k, are  *)
(* kept then.  When width / height is a dyadic rational every step is      *)
(* exact.                                                                  *)

DefaultMaxWidth == 1250
DefaultMaxHeight == 1750

RECURSIVE Gcd(_, _)
Gcd(a, b) == IF b = 0 THEN a ELSE Gcd(b, a % b)

RECURSIVE IsPowerOfTwo(_)
IsPowerOfTwo(n) == n = 1 \/ (n % 2 = 0 /\ IsPowerOfTwo(n \div 2))

\* width / height is computed without rounding
ExactRatio(width, height) == IsPowerOfTwo(height \div Gcd(width, height))

\* int(x) for the double x computed for num / den
FloatTrunc(num, den, exact) ==
    IF num % den = 0 /\ ~exact
    THEN {(num \div den) - 1, num \div den}
    ELSE {num \div den}

\* line 79 with the clamp dropped
NewWidthsUnclamped(width, height, max_width, max_height) ==
    FloatTrunc(max_height * width, height, ExactRatio(width, height))

\* line 79: new_width = min(max_width, int(max_height * aspect_ratio))
NewWidths(width, height, max_width, max_height) ==
    {Min(max_width, t) :
        t \in FloatTrunc(max_height * width, height, ExactRatio(width, height))}

\* line 80 multiplying by the aspect ratio where the code divides
NewHeightsByProduct(width, height, max_width, max_height) ==
    {Min(max_height, t) :
        t \in FloatTrunc(max_width * width, height, ExactRatio(width, height))}

\* line 80: new_height = min(max_height, int(max_width / aspect_ratio))
NewHeights(width, height, max_width, max_height) ==
    {Min(max_height, t) :
        t \in FloatTrunc(max_width * height, width, ExactRatio(width, height))}

\* lines 74-84: the (width, height) pairs the call can return
load_image_data(width, height, max_width, max_height) ==
    IF width > max_width \/ height > max_height
    THEN NewWidths(width, height, max_width, max_height)
         \X NewHeights(width, height, max_width, max_height)
    ELSE {<<width, height>>}

-----------------------------------------------------------------------------
(* inference (lines 86-152) and _extract_file_paths (lines 154-166).       *)

\* A path is a directory and a name; the directory "" is a relative path.
Cwd == "/cwd"
NoPath == [dir |-> "", name |-> ""]

\* os.path.abspath: a relative path is joined to the working directory
abspath(p) == IF p.dir = "" THEN [dir |-> Cwd, name |-> p.name] ELSE p

\* line 165: data.get("file_path", []) for every item, in order
RECURSIVE extract_file_paths(_)
extract_file_paths(items) ==
    IF items = <<>> THEN <<>>
    ELSE [k \in 1..Len(items[1].file_path) |-> abspath(items[1].file_path[k])]
         \o extract_file_paths(Tail(items))

\* The files of the machine the call runs on: two images and nothing at
\* /no/such/file.png.
FileAt(p) ==
    IF p = [dir |-> Cwd, name |-> "invoice.png"]
    THEN [exists |-> TRUE, width |-> 2480, height |-> 3508, bytes |-> "invoice"]
    ELSE IF p = [dir |-> "/data", name |-> "receipt.png"]
    THEN [exists |-> TRUE, width |-> 800, height |-> 600, bytes |-> "receipt"]
    ELSE [exists |-> FALSE, width |-> 0, height |-> 0, bytes |-> ""]

\* lines 34-36: base64 of the file's own bytes behind a fixed MIME tag
image_to_data_url(p) ==
    [mime |-> "data:image/jpeg;base64", payload |-> <<"b64", FileAt(p).bytes>>]

ApiUrl == "https://endpoint/v1/chat/completions"
ApiKey == "secret"

\* line 117 taking the last item's text
UserTextOfLastItem(items) == items[Len(items)].text_input

\* line 117: input_data[0]["text_input"]
UserText(items) == items[1].text_input

\* lines 109-132, 136: what is POSTed for one path
BuildRequest(items, p) ==
    [url |-> ApiUrl,
     authorization |-> <<"Bearer", ApiKey>>,
     model |-> "qwen/qwen2.5-vl-72b-instruct:free",
     system |-> "You are an expert at extracting structured text from image documents.",
     text |-> UserText(items),
     image_url |-> image_to_data_url(p)]

\* what escapes requests.post / raise_for_status as a RequestException
RequestErrors == {"ConnectionError", "HTTPError"}

\* a 2xx body without a string at choices[0].message.content, and what
\* lines 141-142 raise on it
ShapeErrors ==
    {[shape |-> "no choices key", exc |-> "KeyError"],
     [shape |-> "empty choices list", exc |-> "IndexError"],
     [shape |-> "choices is not a list", exc |-> "TypeError"],
     [shape |-> "content is null", exc |-> "TypeError"]}

\* line 150 with the path left out of the message
RequestErrorResultWithoutPath(p, e) ==
    [kind |-> "error", path |-> NoPath, detail |-> e, text |-> <<>>]

\* lines 148-150: {"error": f"Qwen API error for {file_path}: {str(e)}"}
RequestErrorResult(p, e) ==
    [kind |-> "error", path |-> p, detail |-> e, text |-> <<>>]

\* lines 142-143: the processed response, a str
TextResult(t) == [kind |-> "text", path |-> NoPath, detail |-> "", text |-> t]

\* line 95: the canned result of ModelInference.get_simple_json
get_simple_json == [kind |-> "static", path |-> NoPath, detail |-> "", text |-> <<>>]

-----------------------------------------------------------------------------
(* Specification SpecExtract: process_response on a bounded set of texts.  *)

\* the pieces a text is built from
Fragments ==
    {FenceOpen, FenceClose}
    \cup {<<c>> : c \in {"{", "}", "[", "]", "'", "\"", ":", ",", "1", "a", " "}}

\* "Here is the result:\n```json\n{'a': 1}\n```", shortened to "a:\n..."
SampleFencedSingleQuotes ==
    <<"a", ":", "\n">> \o FenceOpen
    \o <<"\n", "{", "'", "a", "'", ":", " ", "1", "}", "\n">> \o FenceClose
\* "not json at all", shortened
SampleNotJson == <<"n", "o", "t", " ", "j", "s", "o", "n">>
\* {"a": [1, 2], "a": {}}
SampleNested ==
    <<"{", "\"", "a", "\"", ":", " ", "[", "1", ",", " ", "2", "]", ",", " ",
      "\"", "a", "\"", ":", " ", "{", "}", "}">>
\* {"a": "', 'b': '"}
SampleApostrophes ==
    <<"{", "\"", "a", "\"", ":", " ", "\"", "'", ",", " ", "'", "b", "'", ":",
      " ", "'", "\"", "}">>
\* a fenced block that is not JSON: "```json\nsee [a]\n```"
SampleFencedNotJson ==
    FenceOpen \o <<"\n", "s", "e", "e", " ", "[", "a", "]", "\n">> \o FenceClose

SampleTexts ==
    {SampleFencedSingleQuotes, SampleNotJson, SampleNested, SampleApostrophes,
     SampleFencedNotJson}

ExtractInputs == {Cat(parts) : parts \in SeqsUpTo(Fragments, MaxParts)} \cup SampleTexts

InferenceIdle ==
    /\ pc = "idle" /\ input_data = <<>> /\ mode = "none" /\ file_paths = <<>>
    /\ idx = 0 /\ results = <<>> /\ image_size = <<0, 0>> /\ requests = <<>>
    /\ responses = <<>> /\ returned = <<>> /\ raised = ""

ExtractIdle ==
    epc = "idle" /\ raw_text = <<>> /\ output_text = <<>> /\ ret_text = <<>>

ResizeIdle ==
    /\ rpc = "idle"
    /\ img = [width |-> 1, height |-> 1, max_width |-> 1, max_height |-> 1]
    /\ dims = <<0, 0>>

ExtractInit ==
    /\ epc = "call"
    /\ raw_text \in ExtractInputs
    /\ output_text = raw_text
    /\ ret_text = <<>>
    /\ InferenceIdle
    /\ ResizeIdle

\* one call of process_response(raw_text)
ProcessResponse ==
    /\ epc = "call"
    /\ output_text' = FenceExtract(raw_text)
    /\ ret_text' = process_response(raw_text)
    /\ epc' = "ret"
    /\ UNCHANGED <<raw_text, inferenceVars, resizeVars>>

ExtractNext == ProcessResponse

SpecExtract == ExtractInit /\ [][ExtractNext]_vars

FirstOpen(text) == Find(text, FenceOpen, 1)
Closings(text) ==
    {j \in (FirstOpen(text) + 7)..Len(text) : OccursAt(text, FenceClose, j)}
HasFence(text) == \E i \in 1..Len(text) : OccursAt(text, FenceOpen, i)
HasBackquotes(text) == \E i \in 1..Len(text) : OccursAt(text, FenceClose, i)

\* C5: when the cleaned text does not parse as JSON, process_response returns
\* exactly the text it was called with, fenced block or not.
C5_FallbackIsRawInput ==
    (epc = "ret" /\ ~JsonLoads(CleanText(output_text)).ok) => ret_text = raw_text

\* C6: valid JSON with no fence comes back as text that parses to the same
\* value.
C6_CleanJsonRoundTrips ==
    (epc = "ret" /\ ~HasBackquotes(raw_text) /\ JsonLoads(raw_text).ok) =>
        /\ JsonLoads(ret_text).ok
        /\ JsonLoads(ret_text).val = JsonLoads(raw_text).val

\* C10 as claimed: with a closing fence the text cleaned and parsed is the
\* content between the fences; with none it is the slice from the opening
\* fence (with or without the fence itself) to the end of the input.
C10_UnclosedFenceSliced ==
    (epc = "ret" /\ HasFence(raw_text)) =>
        LET i == FirstOpen(raw_text)
            closes == Closings(raw_text)
        IN IF closes # {}
           THEN \E j \in closes :
                   /\ \A k \in closes : j <= k
                   /\ output_text = StripChars(SubSeq(raw_text, i + 7, j - 1), Whitespace)
           ELSE output_text \in {SubSeq(raw_text, i, Len(raw_text)),
                                 SubSeq(raw_text, i + 7, Len(raw_text))}

\* C10 as amended: with a closing fence the text cleaned and parsed is the
\* whitespace-stripped content between the first opening fence and the first
\* closing fence after it; with none it is the whole input, the text before
\* the fence included.  The returned text is the parse of that text, or that
\* text itself.
C10_FenceHandling ==
    (epc = "ret" /\ HasFence(raw_text)) =>
        LET i == FirstOpen(raw_text)
            closes == Closings(raw_text)
            parsed == JsonLoads(CleanText(output_text))
        IN /\ IF closes # {}
              THEN \E j \in closes :
                      /\ \A k \in closes : j <= k
                      /\ output_text =
                            StripChars(SubSeq(raw_text, i + 7, j - 1), Whitespace)
              ELSE output_text = raw_text
           /\ ret_text = IF parsed.ok THEN JsonDumps(parsed.val) ELSE output_text

\* an opening fence with text before it and no closing fence was processed
C10_Witness ==
    /\ epc = "ret"
    /\ HasFence(raw_text)
    /\ FirstOpen(raw_text) > 1
    /\ Closings(raw_text) = {}
    /\ Len(raw_text) > FirstOpen(raw_text) + 6
    /\ ret_text = raw_text

-----------------------------------------------------------------------------
(* Specification SpecResize: load_image_data on a bounded set of sizes.    *)

\* sizes tried with the default bounds of line 64
SampleSizes ==
    {<<800, 600>>, <<1250, 1750>>, <<1251, 1750>>, <<2500, 3500>>,
     <<2480, 3508>>, <<10000, 1>>, <<1, 10000>>, <<1300, 1800>>, <<1750, 1250>>}

ResizeInputs ==
    [width : 1..MaxDim, height : 1..MaxDim,
     max_width : 1..MaxBound, max_height : 1..MaxBound]
    \cup {[width |-> sz[1], height |-> sz[2], max_width |-> DefaultMaxWidth,
           max_height |-> DefaultMaxHeight] : sz \in SampleSizes}

ResizeInit ==
    /\ rpc = "call"
    /\ img \in ResizeInputs
    /\ dims = <<0, 0>>
    /\ InferenceIdle
    /\ ExtractIdle

\* one call of load_image_data on an image of size (img.width, img.height)
LoadImageData ==
    /\ rpc = "call"
    /\ dims' \in load_image_data(img.width, img.height, img.max_width, img.max_height)
    /\ rpc' = "ret"
    /\ UNCHANGED <<img, inferenceVars, extractVars>>

ResizeNext == LoadImageData

SpecResize == ResizeInit /\ [][ResizeNext]_vars

-----------------------------------------------------------------------------
(* Specification Spec: one call of inference(input_data, mode).            *)

SamplePaths ==
    {[dir |-> "", name |-> "invoice.png"],
     [dir |-> "/data", name |-> "receipt.png"],
     [dir |-> "/no/such", name |-> "file.png"]}

SampleInstructions == {"extract the invoice", "extract the receipt"}

\* the texts the model answers with
ResponseTexts == {SampleFencedSingleQuotes, SampleNotJson}

Items == [file_path : SeqsUpTo(SamplePaths, MaxPaths), text_input : SampleInstructions]

RECURSIVE TotalPaths(_)
TotalPaths(items) ==
    IF items = <<>> THEN 0 ELSE Len(items[1].file_path) + TotalPaths(Tail(items))

InferenceInputs == {items \in SeqsUpTo(Items, MaxItems) : TotalPaths(items) <= MaxWork}

Init ==
    /\ pc = "start"
    /\ input_data \in InferenceInputs
    /\ mode \in {"none", "static"}
    /\ file_paths = <<>>
    /\ idx = 0
    /\ results = <<>>
    /\ image_size = <<0, 0>>
    /\ requests = <<>>
    /\ responses = <<>>
    /\ returned = <<>>
    /\ raised = ""
    /\ ExtractIdle
    /\ ResizeIdle

\* lines 94-95: static mode returns the canned result at once
InferenceStatic ==
    /\ pc = "start"
    /\ mode = "static"
    /\ returned' = <<get_simple_json>>
    /\ pc' = "done"
    /\ UNCHANGED <<input_data, mode, file_paths, idx, results, image_size,
                   requests, responses, raised, extractVars, resizeVars>>

\* lines 98-99: the worklist and the empty result list
ExtractFilePaths ==
    /\ pc = "start"
    /\ mode # "static"
    /\ file_paths' = extract_file_paths(input_data)
    /\ results' = <<>>
    /\ idx' = 1
    /\ pc' = "loop"
    /\ UNCHANGED <<input_data, mode, image_size, requests, responses, returned,
                   raised, extractVars, resizeVars>>

InLoop == pc = "loop" /\ idx <= Len(file_paths)

\* line 103 on a path with no file (or no image) behind it: Image.open
\* raises outside the try of lines 134-150 and the exception leaves the call
IterLoadError ==
    /\ InLoop
    /\ ~FileAt(file_paths[idx]).exists
    /\ raised' = "FileNotFoundError"
    /\ pc' = "raised"
    /\ UNCHANGED <<input_data, mode, file_paths, idx, results, image_size,
                   requests, responses, returned, extractVars, resizeVars>>

\* lines 103-136 of one iteration, up to the POST and its answer
PostAndReceive(answer) ==
    LET f == FileAt(file_paths[idx])
    IN /\ InLoop
       /\ f.exists
       /\ image_size' \in load_image_data(f.width, f.height, DefaultMaxWidth,
                                          DefaultMaxHeight)
       /\ requests' = Append(requests, BuildRequest(input_data, file_paths[idx]))
       /\ responses' = Append(responses, answer)

\* lines 136-137 raise a RequestException; lines 147-150 turn it into a result
IterRequestError ==
    \E e \in RequestErrors :
        /\ PostAndReceive([kind |-> e, content |-> <<>>])
        /\ results' = Append(results, RequestErrorResult(file_paths[idx], e))
        /\ idx' = idx + 1
        /\ UNCHANGED <<pc, input_data, mode, file_paths, returned, raised,
                       extractVars, resizeVars>>

\* lines 140-142 on a 2xx body of the wrong shape: the KeyError, IndexError or
\* TypeError is no RequestException and leaves the call
IterResponseShapeError ==
    \E m \in ShapeErrors :
        /\ PostAndReceive([kind |-> m.shape, content |-> <<>>])
        /\ raised' = m.exc
        /\ pc' = "raised"
        /\ UNCHANGED <<input_data, mode, file_paths, idx, results, returned,
                       extractVars, resizeVars>>

\* lines 140-145: the content is processed and appended
IterSuccess ==
    \E t \in ResponseTexts :
        /\ PostAndReceive([kind |-> "ok", content |-> t])
        /\ results' = Append(results, TextResult(process_response(t)))
        /\ idx' = idx + 1
        /\ UNCHANGED <<pc, input_data, mode, file_paths, returned, raised,
                       extractVars, resizeVars>>

\* line 152
Return ==
    /\ pc = "loop"
    /\ idx > Len(file_paths)
    /\ returned' = results
    /\ pc' = "done"
    /\ UNCHANGED <<input_data, mode, file_paths, idx, results, image_size,
                   requests, responses, raised, extractVars, resizeVars>>

Next ==
    \/ InferenceStatic
    \/ ExtractFilePaths
    \/ IterLoadError
    \/ IterRequestError
    \/ IterResponseShapeError
    \/ IterSuccess
    \/ Return

Spec == Init /\ [][Next]_vars

Ended == mode # "static" /\ pc \in {"done", "raised"}

\* the result lines 139-150 produce for path p and the remote answer a
ResultFor(p, a) ==
    IF a.kind = "ok" THEN TextResult(process_response(a.content))
    ELSE [kind |-> "error", path |-> p, detail |-> a.kind, text |-> <<>>]

RECURSIVE PathsBefore(_, _)
PathsBefore(items, j) ==
    IF j <= 1 THEN 0 ELSE Len(items[j - 1].file_path) + PathsBefore(items, j - 1)

\* C1: a non-static call returns one result per worklist path, the i-th
\* result being the one produced for the i-th path, whatever happens to the
\* single items.
C1_ResultPerPath ==
    Ended =>
        /\ pc = "done"
        /\ Len(returned) = Len(extract_file_paths(input_data))
        /\ \A i \in 1..Len(returned) :
              returned[i] = ResultFor(file_paths[i], responses[i])

\* C2: a path with no loadable image behind it gets an error-tagged object
\* naming it in its slot, and the call still returns a result for every path.
C2_LoadFailureIsolated ==
    (/\ Ended
     /\ raised \notin {m.exc : m \in ShapeErrors}
     /\ \E i \in 1..Len(file_paths) : ~FileAt(file_paths[i]).exists) =>
        /\ pc = "done"
        /\ Len(returned) = Len(file_paths)
        /\ \A i \in 1..Len(file_paths) :
              ~FileAt(file_paths[i]).exists =>
                  returned[i].kind = "error" /\ returned[i].path = file_paths[i]

\* C3: a POST that fails with a transport error or a non-2xx status appends
\* exactly one error object naming the path at the path's position, leaves
\* the earlier results as they were, and the loop goes on to the next path.
C3_RequestErrorIsolated ==
    [][(/\ Len(responses') = Len(responses) + 1
        /\ responses'[Len(responses')].kind \in RequestErrors) =>
           /\ Len(results') = Len(results) + 1
           /\ SubSeq(results', 1, Len(results)) = results
           /\ Len(results') = idx
           /\ results'[idx].kind = "error"
           /\ results'[idx].path = file_paths[idx]
           /\ results'[idx].detail = responses'[Len(responses')].kind
           /\ file_paths' = file_paths
           /\ idx' = idx + 1
           /\ pc' = "loop"]_vars

\* three paths, the second failing: normal results around one error object
C3_Witness ==
    /\ pc = "done"
    /\ Len(returned) = 3
    /\ returned[1].kind = "text"
    /\ returned[2].kind = "error"
    /\ returned[2].path = file_paths[2]
    /\ returned[3].kind = "text"

\* C4: a 2xx answer without a string at choices[0].message.content puts an
\* error-tagged object in the item's slot and no exception leaves the call.
C4_ShapeErrorIsolated ==
    (Ended /\ \E i \in 1..Len(responses) :
                 responses[i].kind \in {m.shape : m \in ShapeErrors}) =>
        /\ pc = "done"
        /\ raised = ""
        /\ \A i \in 1..Len(responses) :
              responses[i].kind \in {m.shape : m \in ShapeErrors} =>
                  Len(returned) >= i /\ returned[i].kind = "error"

\* C9: every request carries the first item's text and the image of the
\* worklist path it was built for, and the worklist is the items' paths, made
\* absolute, in item order then path order.
C9_FirstItemTextEverywhere ==
    /\ \A k \in 1..Len(requests) :
          /\ requests[k].text = input_data[1].text_input
          /\ requests[k].image_url = image_to_data_url(file_paths[k])
    /\ (mode # "static" /\ pc # "start") =>
          /\ Len(file_paths) = TotalPaths(input_data)
          /\ \A j \in 1..Len(input_data) :
                \A k \in 1..Len(input_data[j].file_path) :
                    file_paths[PathsBefore(input_data, j) + k]
                        = abspath(input_data[j].file_path[k])

\* a request was sent for a path of a second item whose text differs
C9_Witness ==
    /\ Len(input_data) >= 2
    /\ input_data[2].text_input # input_data[1].text_input
    /\ input_data[2].file_path # <<>>
    /\ Len(requests) > Len(input_data[1].file_path)

=============================================================================
